---- MODULE Spec2Model ----
(***************************************************************************)
(* The cart store of cart/frontend/src/utils/cartStore.ts: a zustand store *)
(* wrapped in the persist middleware (localStorage key "viewcraft-cart").  *)
(*                                                                         *)
(* Money.  The code computes in IEEE doubles and stores                    *)
(* Number(x.toFixed(2)).  Here every stored amount is an integer number of *)
(* cents, and the unrounded intermediate values are exact integers in      *)
(* finer units: a price is given in cents and a discount in whole percent, *)
(* so price * (1 - discount/100) * quantity is an exact multiple of        *)
(* 1/10000 dollar, and 8% of it an exact multiple of 1/1000000 dollar.     *)
(* toFixed(2) is rounding to the nearest cent, a tie going up.  The        *)
(* doubles' representation error (about 1e-15 relative) can change the     *)
(* result only when the exact value is a tie or sits exactly on the        *)
(* free-shipping threshold.                                                *)
(*                                                                         *)
(* A line item carries id, title, price, discountPercentage and quantity;  *)
(* thumbnail, category, brand, rating and addedAt are never read by the    *)
(* store and are left out.                                                 *)
(***************************************************************************)
EXTENDS Integers, Sequences, FiniteSets, TLC

\* Largest quantity a line item is driven to (guards of AddItem, UpdateQuantity).
MaxQty == 3

\* cartStore.ts:48-50.  TAX_RATE in percent, the two amounts in cents.
TAX_RATE == 8
SHIPPING_COST == 599
FREE_SHIPPING_THRESHOLD == 5000

\* cartStore.ts:174, the localStorage key of the persisted snapshot.
CART_KEY == "viewcraft-cart"

\* The products the catalogue page can hand to addItem (App.tsx:566-575):
\* price in cents, discountPercentage in percent (0 is falsy: no discount).
ProductIds == {1, 2, 3}

Catalog ==
  [id \in ProductIds |->
     CASE id = 1 -> [id |-> 1, title |-> "Mascara", price |-> 2000, discountPercentage |-> 10]
       [] id = 2 -> [id |-> 2, title |-> "Perfume", price |-> 5376, discountPercentage |-> 7]
       [] OTHER  -> [id |-> id, title |-> "Apple", price |-> 999, discountPercentage |-> 0]]

VARIABLES
  cart,      \* the store's state object: items, isOpen and the five totals
  storage,   \* localStorage: key -> persisted value
  toasts,    \* the notifications emitted by the last handler, in order
  lastOp,    \* the last handler run and its arguments
  prev,      \* the store's state object as the last handler found it
  published, \* the states the last handler's set() calls showed to the
             \* store's subscribers and to the persistence write, in order
  route,     \* the page the router shows
  checkout,  \* the Checkout component's state (its useState cells) and what
             \* its last render returned
  timers,    \* the payment delays in flight, oldest first: TRUE for the one
             \* started by the Checkout instance now mounted
  prevCheckout, \* the Checkout component's state as the last handler found it
  returned   \* what the last handler returned: <<>> for nothing, else <<value>>

vars == <<cart, storage, toasts, lastOp, prev, published,
          route, checkout, timers, prevCheckout, returned>>

\* cartStore.ts:57-63
InitialState ==
  [items |-> <<>>, isOpen |-> FALSE, totalItems |-> 0, totalPrice |-> 0,
   subtotal |-> 0, tax |-> 0, shipping |-> 0]

TotalsOf(s) ==
  [totalItems |-> s.totalItems, subtotal |-> s.subtotal, tax |-> s.tax,
   shipping |-> s.shipping, totalPrice |-> s.totalPrice]

----------------------------------------------------------------------------
\* Array helpers (Array.prototype.find / filter / map / reduce).

HasItem(items, id) == \E i \in 1..Len(items) : items[i].id = id

\* items.find(item => item.id === id): the first match.
FindItem(items, id) ==
  items[CHOOSE i \in 1..Len(items) :
          items[i].id = id /\ \A j \in 1..(i - 1) : items[j].id # id]

FilterOut(items, id) == SelectSeq(items, LAMBDA it : it.id # id)

WithQuantity(items, id, quantity) ==
  [i \in 1..Len(items) |->
     IF items[i].id = id THEN [items[i] EXCEPT !.quantity = quantity] ELSE items[i]]

\* items.reduce((sum, item) => sum + item.quantity, 0)
RECURSIVE SumQuantity(_)
SumQuantity(items) ==
  IF items = <<>> THEN 0 ELSE Head(items).quantity + SumQuantity(Tail(items))

\* Number(x.toFixed(2)) of a non-negative amount x given as raw/unitsPerCent cents.
ToFixed2(raw, unitsPerCent) == (2 * raw + unitsPerCent) \div (2 * unitsPerCent)

----------------------------------------------------------------------------
\* A handler runs on a context: the store state, localStorage and the
\* notifications emitted so far.

Ctx(s, st) == [state |-> s, storage |-> st, toasts |-> <<>>, published |-> <<>>]

\* partialize handing the whole state object to the storage.
partialize_WholeState(s) == s

\* persist option partialize (cartStore.ts:175-178): what is written.
partialize(s) == [items |-> s.items]

\* The store's set() under persist: merge the partial state, then write the
\* partialized state under the cart key.  zustand's persist middleware does
\* this on every set(), so a handler that calls set() twice writes twice.
\* zustand calls the store's subscribers inside set(), before it returns.
set(c, partial) ==
  LET s == partial @@ c.state
  IN  [c EXCEPT !.state = s,
                !.storage = (CART_KEY :> partialize(s)) @@ c.storage,
                !.published = Append(@, s)]

toast(c, kind, message, title) ==
  [c EXCEPT !.toasts = Append(@, [kind |-> kind, message |-> message, title |-> title])]

\* LinePrice with the discount never applied.
LinePrice_NoDiscount(it) == it.price * 100 * it.quantity

\* itemPrice * item.quantity of one line, in 1/10000 dollar.
LinePrice(it) ==
  (IF it.discountPercentage # 0
     THEN it.price * (100 - it.discountPercentage)
     ELSE it.price * 100) * it.quantity

\* The unrounded subtotal, in 1/10000 dollar.
RECURSIVE RawSubtotal(_)
RawSubtotal(items) ==
  IF items = <<>> THEN 0 ELSE LinePrice(Head(items)) + RawSubtotal(Tail(items))

\* calculateTotals adding the item count to the stored one.
calculateTotals_Accumulating(c) ==
  set(c, [totalItems |-> c.state.totalItems + SumQuantity(c.state.items)])

calculateTotals(c) ==
  LET items      == c.state.items
      totalItems == SumQuantity(items)
      subtotal   == RawSubtotal(items)                      \* 1/10000 dollar
      tax        == subtotal * TAX_RATE                     \* 1/1000000 dollar
      shipping   == IF subtotal >= FREE_SHIPPING_THRESHOLD * 100
                      THEN 0 ELSE SHIPPING_COST             \* cents
      totalPrice == subtotal * 100 + tax + shipping * 10000 \* 1/1000000 dollar
  IN  set(c, [totalItems |-> totalItems,
              subtotal   |-> ToFixed2(subtotal, 100),
              tax        |-> ToFixed2(tax, 10000),
              shipping   |-> shipping,
              totalPrice |-> ToFixed2(totalPrice, 10000)])

\* removeItem returning early when no line item has the id.
removeItem_SkipWhenAbsent(c, id) ==
  LET items == c.state.items
      c1 == calculateTotals(set(c, [items |-> FilterOut(items, id)]))
  IN  IF HasItem(items, id)
        THEN toast(c1, "success", "removed from cart", FindItem(items, id).title)
        ELSE c

removeItem(c, id) ==
  LET items == c.state.items
      c1 == calculateTotals(set(c, [items |-> FilterOut(items, id)]))
  IN  IF HasItem(items, id)
        THEN toast(c1, "success", "removed from cart", FindItem(items, id).title)
        ELSE c1

\* updateQuantity with the guard written quantity < 0.
updateQuantity_ZeroKept(c, id, quantity) ==
  IF quantity < 0
    THEN removeItem(c, id)
    ELSE calculateTotals(set(c, [items |-> WithQuantity(c.state.items, id, quantity)]))

\* updateQuantity clamping the quantity to a stock of 2.
updateQuantity_Clamped(c, id, quantity) ==
  IF quantity <= 0
    THEN removeItem(c, id)
    ELSE calculateTotals(set(c, [items |->
           WithQuantity(c.state.items, id, IF quantity > 2 THEN 2 ELSE quantity)]))

updateQuantity(c, id, quantity) ==
  IF quantity <= 0
    THEN removeItem(c, id)
    ELSE calculateTotals(set(c, [items |-> WithQuantity(c.state.items, id, quantity)]))

\* addItem passing 1, not the old quantity + 1, for an existing line item.
addItem_Overwrite(c, product) ==
  LET items == c.state.items
  IN  IF HasItem(items, product.id)
        THEN updateQuantity(c, product.id, 1)
        ELSE LET newItem == [id |-> product.id, title |-> product.title,
                             price |-> product.price,
                             discountPercentage |-> product.discountPercentage,
                             quantity |-> 1]
                 c1 == calculateTotals(set(c, [items |-> Append(items, newItem)]))
             IN  toast(c1, "success", "added to cart", product.title)

addItem(c, product) ==
  LET items == c.state.items
  IN  IF HasItem(items, product.id)
        THEN updateQuantity(c, product.id, FindItem(items, product.id).quantity + 1)
        ELSE LET newItem == [id |-> product.id, title |-> product.title,
                             price |-> product.price,
                             discountPercentage |-> product.discountPercentage,
                             quantity |-> 1]
                 c1 == calculateTotals(set(c, [items |-> Append(items, newItem)]))
             IN  toast(c1, "success", "added to cart", product.title)

\* clearCart resetting the line items only.
clearCart_ItemsOnly(c) ==
  toast(set(c, [items |-> <<>>]), "success", "Cart cleared", "")

clearCart(c) ==
  toast(set(c, [items |-> <<>>, totalItems |-> 0, totalPrice |-> 0,
                subtotal |-> 0, tax |-> 0, shipping |-> 0]),
        "success", "Cart cleared", "")

toggleCart(c) == set(c, [isOpen |-> ~c.state.isOpen])
openCart(c)   == set(c, [isOpen |-> TRUE])
closeCart(c)  == set(c, [isOpen |-> FALSE])

\* Store creation at page load: the initial state, the persisted snapshot
\* merged over it, then the onRehydrateStorage callback (cartStore.ts:179-184).
\* localStorage is synchronous, so hydration is over when create() returns;
\* the callback runs whether or not a snapshot was stored.
\* rehydrate without the onRehydrateStorage callback.
rehydrate_NoRecalc(st) ==
  LET merged == IF CART_KEY \in DOMAIN st THEN st[CART_KEY] @@ InitialState
                                          ELSE InitialState
  IN  set(Ctx(merged, st), <<>>)

rehydrate(st) ==
  LET merged == IF CART_KEY \in DOMAIN st THEN st[CART_KEY] @@ InitialState
                                          ELSE InitialState
  IN  calculateTotals(Ctx(merged, st))

----------------------------------------------------------------------------
(***************************************************************************)
(* The checkout page, cart/frontend/src/pages/Checkout.tsx.  A form field  *)
(* holds a string, here the sequence of its characters.                    *)
(***************************************************************************)

Digits == {"0", "1", "2", "3", "4", "5", "6", "7", "8", "9"}

\* \s of the regular expressions, over the characters the samples use.
IsSpace(ch) == ch \in {" ", "\t"}

\* Blank meaning empty only, a whitespace-only string passing.
IsBlank_EmptyOnly(str) == str = <<>>

\* !value?.trim(): the string is empty or whitespace only.
IsBlank(str) == \A i \in 1..Len(str) : IsSpace(str[i])

\* value.replace(/\s/g, '')
StripSpaces(str) == SelectSeq(str, LAMBDA ch : ~IsSpace(ch))

AllDigits(str) == \A i \in 1..Len(str) : str[i] \in Digits

\* /^[^\s@]+@[^\s@]+\.[^\s@]+$/.test(str)
EmailShape(str) ==
  \E i \in 1..Len(str) :
    /\ str[i] = "@"
    /\ i > 1
    /\ \A k \in 1..Len(str) : k # i => ~IsSpace(str[k]) /\ str[k] # "@"
    /\ \E j \in (i + 2)..(Len(str) - 1) : str[j] = "."

\* /^\d{16}$/.test(str)
CardShape(str) == Len(str) = 16 /\ AllDigits(str)

\* The expiry pattern with any two digits for the month.
ExpiryShape_AnyMonth(str) ==
  /\ Len(str) = 5
  /\ str[1] \in Digits /\ str[2] \in Digits
  /\ str[3] = "/"
  /\ str[4] \in Digits
  /\ str[5] \in Digits

\* /^(0[1-9]|1[0-2])\/([0-9]{2})$/.test(str)
ExpiryShape(str) ==
  /\ Len(str) = 5
  /\ \/ str[1] = "0" /\ str[2] \in Digits \ {"0"}
     \/ str[1] = "1" /\ str[2] \in {"0", "1", "2"}
  /\ str[3] = "/"
  /\ str[4] \in Digits
  /\ str[5] \in Digits

\* /^\d{3,4}$/.test(str)
CvvShape(str) == Len(str) \in {3, 4} /\ AllDigits(str)

\* if (cond) newErrors[field] = message, as a one-entry or empty map.
ErrorIf(cond, field, message) == IF cond THEN field :> message ELSE <<>>

\* validateShipping (Checkout.tsx:73-92): the error map it hands to setErrors.
\* A later assignment to a key replaces an earlier one, so it stands first.
ShippingErrors(a) ==
  ErrorIf(a.email # <<>> /\ ~EmailShape(a.email), "email", "Please enter a valid email")
  @@ ErrorIf(IsBlank(a.firstName), "firstName", "First name is required")
  @@ ErrorIf(IsBlank(a.lastName), "lastName", "Last name is required")
  @@ ErrorIf(IsBlank(a.email), "email", "Email is required")
  @@ ErrorIf(IsBlank(a.phone), "phone", "Phone is required")
  @@ ErrorIf(IsBlank(a.address1), "address1", "Address is required")
  @@ ErrorIf(IsBlank(a.city), "city", "City is required")
  @@ ErrorIf(IsBlank(a.state), "state", "State is required")
  @@ ErrorIf(IsBlank(a.zipCode), "zipCode", "ZIP code is required")

\* validatePayment (Checkout.tsx:94-119): the error map it hands to setErrors.
PaymentErrors(d) ==
  ErrorIf(d.cardNumber # <<>> /\ ~CardShape(StripSpaces(d.cardNumber)),
          "cardNumber", "Please enter a valid 16-digit card number")
  @@ ErrorIf(d.expiryDate # <<>> /\ ~ExpiryShape(d.expiryDate),
             "expiryDate", "Please enter date in MM/YY format")
  @@ ErrorIf(d.cvv # <<>> /\ ~CvvShape(d.cvv), "cvv", "Please enter a valid 3-4 digit CVV")
  @@ ErrorIf(IsBlank(d.cardNumber), "cardNumber", "Card number is required")
  @@ ErrorIf(IsBlank(d.expiryDate), "expiryDate", "Expiry date is required")
  @@ ErrorIf(IsBlank(d.cvv), "cvv", "CVV is required")
  @@ ErrorIf(IsBlank(d.cardholderName), "cardholderName", "Cardholder name is required")

\* Object.keys(newErrors).length === 0
NoErrors(errors) == DOMAIN errors = {}

\* validateShipping / validatePayment on the component state: setErrors, and
\* the boolean returned.
validateShipping(co) ==
  LET e == ShippingErrors(co.shippingAddress)
  IN  [co |-> [co EXCEPT !.errors = e], ok |-> NoErrors(e)]

validatePayment(co) ==
  LET e == PaymentErrors(co.paymentData)
  IN  [co |-> [co EXCEPT !.errors = e], ok |-> NoErrors(e)]

\* value.replace(/\D/g, ''): the digits of the input, in order.
KeepDigits(str) == SelectSeq(str, LAMBDA ch : ch \in Digits)

\* parts.join(' ') of the chunks of four (Checkout.tsx:126-131).
RECURSIVE Group4(_)
Group4(str) ==
  IF Len(str) <= 4 THEN str
  ELSE SubSeq(str, 1, 4) \o <<" ">> \o Group4(SubSeq(str, 5, Len(str)))

\* formatCardNumber (Checkout.tsx:122-135).  v holds digits only, so the
\* first match of /\d{4,16}/g is its first 16 digits, and there is no match
\* when v has fewer than 4.
formatCardNumber(value) ==
  LET v == KeepDigits(value)
      match == IF Len(v) >= 4
                 THEN SubSeq(v, 1, IF Len(v) < 16 THEN Len(v) ELSE 16)
                 ELSE <<>>
  IN  Group4(match)

\* formatExpiryDate (Checkout.tsx:138-144)
formatExpiryDate(value) ==
  LET v == KeepDigits(value)
  IN  IF Len(v) >= 2
        THEN SubSeq(v, 1, 2) \o <<"/">> \o SubSeq(v, 3, IF Len(v) < 4 THEN Len(v) ELSE 4)
        ELSE v

\* String.prototype.trim
RECURSIVE TrimLeft(_)
TrimLeft(str) == IF str # <<>> /\ IsSpace(Head(str)) THEN TrimLeft(Tail(str)) ELSE str

RECURSIVE TrimRight(_)
TrimRight(str) ==
  IF str # <<>> /\ IsSpace(str[Len(str)])
    THEN TrimRight(SubSeq(str, 1, Len(str) - 1))
    ELSE str

Trim(str) == TrimRight(TrimLeft(str))

\* getUser() (auth.ts:106-116): the stored profile of the logged-in user.
User == [firstName |-> <<"A">>, lastName |-> <<"B">>, email |-> <<"a", "@", "b", ".", "c">>]

\* The component's useState cells at mount (Checkout.tsx:26-51).  country is
\* never read by a handler and is kept as one value.
MountState ==
  [mounted |-> TRUE,
   isProcessing |-> FALSE,
   currentStep |-> "shipping",
   shippingAddress |->
     [firstName |-> User.firstName, lastName |-> User.lastName, email |-> User.email,
      phone |-> <<>>, address1 |-> <<>>, address2 |-> <<>>, city |-> <<>>,
      state |-> <<>>, zipCode |-> <<>>, country |-> "United States"],
   paymentData |->
     [cardNumber |-> <<>>, expiryDate |-> <<>>, cvv |-> <<>>,
      cardholderName |-> Trim(User.firstName \o <<" ">> \o User.lastName)],
   errors |-> <<>>]

\* No Checkout instance is mounted: its state cells do not exist.
Unmounted == [MountState EXCEPT !.mounted = FALSE]

\* render without the early return for an empty cart.
render_NoEmptyGuard(co, items) == IF ~co.mounted THEN "none" ELSE co.currentStep

\* What the component returns (Checkout.tsx:197-199, 296, 415): nothing for
\* an empty cart, else the card of the current step.
render(co, items) ==
  IF ~co.mounted THEN "none"
  ELSE IF Len(items) = 0 THEN "null"
  ELSE co.currentStep

\* handleNextStep taking the step forward without calling the validation.
handleNextStep_Unvalidated(co) ==
  IF co.currentStep = "shipping" THEN [co EXCEPT !.currentStep = "payment"]
  ELSE IF co.currentStep = "payment" THEN [co EXCEPT !.currentStep = "review"]
  ELSE co

\* handleNextStep (Checkout.tsx:147-153).  && does not call the validation
\* of a step the component is not on.
handleNextStep(co) ==
  IF co.currentStep = "shipping" THEN
    LET v == validateShipping(co)
    IN  IF v.ok THEN [v.co EXCEPT !.currentStep = "payment"] ELSE v.co
  ELSE IF co.currentStep = "payment" THEN
    LET v == validatePayment(co)
    IN  IF v.ok THEN [v.co EXCEPT !.currentStep = "review"] ELSE v.co
  ELSE co

\* handlePrevStep validating the step it leaves.
handlePrevStep_Validated(co) ==
  IF co.currentStep = "payment" THEN
    LET v == validatePayment(co)
    IN  IF v.ok THEN [v.co EXCEPT !.currentStep = "shipping"] ELSE v.co
  ELSE IF co.currentStep = "review" THEN [co EXCEPT !.currentStep = "payment"]
  ELSE co

\* handlePrevStep (Checkout.tsx:155-161)
handlePrevStep(co) ==
  IF co.currentStep = "payment" THEN [co EXCEPT !.currentStep = "shipping"]
  ELSE IF co.currentStep = "review" THEN [co EXCEPT !.currentStep = "payment"]
  ELSE co

\* A page: the store's context and, with it, the router's location, the
\* Checkout component's state and the payment delays in flight.
Page(c, r, co, t) ==
  [state |-> c.state, storage |-> c.storage, toasts |-> c.toasts,
   published |-> c.published, route |-> r, co |-> co, timers |-> t,
   returned |-> <<>>]

\* navigate on which the page left aborts the delays it started.
navigate_AbortsDelays(pg, to) ==
  [pg EXCEPT !.route = to,
             !.co = IF to = "/checkout" THEN MountState ELSE Unmounted,
             !.timers = SelectSeq(@, LAMBDA own : ~own)]

\* navigate(to) (react-router): the page shown changes, the Checkout
\* component is mounted afresh on /checkout and unmounted elsewhere.  The
\* delays an unmounted instance started stay in flight.
navigate(pg, to) ==
  [pg EXCEPT !.route = to,
             !.co = IF to = "/checkout" THEN MountState ELSE Unmounted,
             !.timers = [i \in 1..Len(@) |-> FALSE]]

\* The effect of Checkout.tsx:54-61, run after a render with an empty cart.
emptyCartEffect(pg) ==
  IF Len(pg.state.items) = 0
    THEN navigate(toast(pg, "error", "Cart is empty", ""), "/dashboard")
    ELSE pg

\* handleCheckout of the cart page (Cart.tsx:46-54)
handleCheckout(pg) ==
  IF Len(pg.state.items) = 0
    THEN toast(pg, "error", "Cart is empty", "")
    ELSE navigate(pg, "/checkout")

\* handlePlaceOrder setting isProcessing before it validates.
handlePlaceOrder_ProcessingFirst(pg) ==
  LET busy == [pg.co EXCEPT !.isProcessing = TRUE]
      vs == validateShipping(busy)
      vp == validatePayment(vs.co)
  IN  IF ~vs.ok THEN toast([pg EXCEPT !.co = vs.co], "error", "Please check your information", "")
      ELSE IF ~vp.ok THEN toast([pg EXCEPT !.co = vp.co], "error", "Please check your information", "")
      ELSE [pg EXCEPT !.co = vp.co, !.timers = Append(@, TRUE)]

\* handlePlaceOrder not showing that the order is being processed.
handlePlaceOrder_NoProcessingFlag(pg) ==
  LET vs == validateShipping(pg.co)
      vp == validatePayment(vs.co)
  IN  IF ~vs.ok THEN toast([pg EXCEPT !.co = vs.co], "error", "Please check your information", "")
      ELSE IF ~vp.ok THEN toast([pg EXCEPT !.co = vp.co], "error", "Please check your information", "")
      ELSE [pg EXCEPT !.co = vp.co, !.timers = Append(@, TRUE)]

\* handlePlaceOrder clearing the cart although the validation failed.
handlePlaceOrder_ClearsOnFailure(pg) ==
  LET vs == validateShipping(pg.co)
      vp == validatePayment(vs.co)
  IN  IF ~vs.ok THEN clearCart(toast([pg EXCEPT !.co = vs.co], "error", "Please check your information", ""))
      ELSE IF ~vp.ok THEN clearCart(toast([pg EXCEPT !.co = vp.co], "error", "Please check your information", ""))
      ELSE [pg EXCEPT !.co = [vp.co EXCEPT !.isProcessing = TRUE],
                      !.timers = Append(@, TRUE)]

\* handlePlaceOrder up to its await (Checkout.tsx:164-176).  || does not call
\* validatePayment when validateShipping has failed; each validation calls
\* setErrors with its own map, the later call replacing the earlier one.
\* With both passed, the 2000 ms delay is started.
handlePlaceOrder(pg) ==
  LET vs == validateShipping(pg.co)
      vp == validatePayment(vs.co)
  IN  IF ~vs.ok THEN toast([pg EXCEPT !.co = vs.co], "error", "Please check your information", "")
      ELSE IF ~vp.ok THEN toast([pg EXCEPT !.co = vp.co], "error", "Please check your information", "")
      ELSE [pg EXCEPT !.co = [vp.co EXCEPT !.isProcessing = TRUE],
                      !.timers = Append(@, TRUE)]

\* finally { setIsProcessing(false) } (Checkout.tsx:192-194): the setter of
\* an instance no longer mounted changes nothing.
finally(pg, own) ==
  [pg EXCEPT !.co = IF own /\ @.mounted THEN [@ EXCEPT !.isProcessing = FALSE] ELSE @]

\* handlePlaceOrder after its await (Checkout.tsx:178-194), for the instance
\* that started the delay (own) or an instance unmounted since.  outcome is
\* "resolved" for the try block and "rejected" for the catch block.
paymentSettled(pg, own, outcome) ==
  IF outcome = "resolved"
    THEN finally(navigate(toast(clearCart(pg), "success", "Order placed successfully!", ""),
                          "/dashboard"),
                 own)
    ELSE finally(toast(pg, "error", "Payment failed", ""), own)

----------------------------------------------------------------------------
Op(name, id, quantity) == [op |-> name, id |-> id, quantity |-> quantity]

\* The state after a handler that ran on the page pg.
CommitPage(pg, op) ==
  /\ cart' = pg.state
  /\ storage' = pg.storage
  /\ toasts' = pg.toasts
  /\ lastOp' = op
  /\ prev' = cart
  /\ published' = pg.published
  /\ route' = pg.route
  /\ checkout' = pg.co
  /\ timers' = pg.timers
  /\ prevCheckout' = checkout
  /\ returned' = pg.returned

\* The state after a handler of the store: the page stays as it is.
Commit(c, op) == CommitPage(Page(c, route, checkout, timers), op)

Here == Ctx(cart, storage)

PageHere == Page(Here, route, checkout, timers)

\* First load in a browser with nothing stored, on the catalogue page.
Init ==
  LET c == rehydrate(<<>>)
  IN  /\ cart = c.state
      /\ storage = c.storage
      /\ toasts = c.toasts
      /\ lastOp = Op("rehydrate", 0, 0)
      /\ prev = InitialState
      /\ published = c.published
      /\ route = "/dashboard"
      /\ checkout = Unmounted
      /\ timers = <<>>
      /\ prevCheckout = Unmounted
      /\ returned = <<>>

AddItem(p) ==
  /\ \A i \in 1..Len(cart.items) : cart.items[i].id = p => cart.items[i].quantity < MaxQty
  /\ Commit(addItem(Here, Catalog[p]), Op("addItem", p, 0))

RemoveItem(id) == Commit(removeItem(Here, id), Op("removeItem", id, 0))

UpdateQuantity(id, q) == Commit(updateQuantity(Here, id, q), Op("updateQuantity", id, q))

\* Cart.tsx:37-43, wired to a line item's - and + buttons (Cart.tsx:220, 233).
handleQuantityChange(c, id, newQuantity) ==
  IF newQuantity < 1 THEN removeItem(c, id) ELSE updateQuantity(c, id, newQuantity)

HandleQuantityChange(i, delta) ==
  LET item == cart.items[i]
  IN  /\ item.quantity + delta <= MaxQty
      /\ Commit(handleQuantityChange(Here, item.id, item.quantity + delta),
                Op("handleQuantityChange", item.id, item.quantity + delta))

\* calculateTotals is one of the store's actions (cartStore.ts:42).
CalculateTotals == Commit(calculateTotals(Here), Op("calculateTotals", 0, 0))

ClearCart == Commit(clearCart(Here), Op("clearCart", 0, 0))

ToggleCart == Commit(toggleCart(Here), Op("toggleCart", 0, 0))

OpenCart == Commit(openCart(Here), Op("openCart", 0, 0))

CloseCart == Commit(closeCart(Here), Op("closeCart", 0, 0))

\* A page reload: the store is created again from localStorage.
Rehydrate == Commit(rehydrate(storage), Op("rehydrate", 0, 0))

Next ==
  \/ \E p \in ProductIds : AddItem(p)
  \/ \E id \in ProductIds : RemoveItem(id)
  \/ \E id \in ProductIds, q \in -1..MaxQty : UpdateQuantity(id, q)
  \/ \E i \in 1..Len(cart.items), delta \in {-1, 1} : HandleQuantityChange(i, delta)
  \/ CalculateTotals
  \/ ClearCart
  \/ ToggleCart
  \/ OpenCart
  \/ CloseCart
  \/ Rehydrate

Spec == Init /\ [][Next]_vars

----------------------------------------------------------------------------
(***************************************************************************)
(* The cart and checkout pages in use.  A user fills a form in, field by   *)
(* field, before pressing a button; no handler but the field's own         *)
(* onChange reads the form in between, so a form is filled in one step.    *)
(***************************************************************************)

\* Most payment delays in flight at once (guard of ClickPlaceOrder).
MaxInFlight == 2

\* The products the user of the checkout flow puts in the cart.
CheckoutProducts == {1}

Routes == {"/dashboard", "/cart", "/checkout"}

\* Dashboard.tsx:123, Cart.tsx:74, Checkout.tsx:219
Links == {<<"/dashboard", "/cart">>, <<"/cart", "/dashboard">>, <<"/checkout", "/cart">>}

\* What the user types into the shipping form.
ShippingInputs ==
  LET valid == [firstName |-> <<"A">>, lastName |-> <<"B">>,
                email |-> <<"a", "@", "b", ".", "c">>, phone |-> <<"5">>,
                address1 |-> <<"1">>, city |-> <<"X">>, state |-> <<"Y">>,
                zipCode |-> <<"9">>]
  IN  { valid,
        [valid EXCEPT !.city = <<" ">>],
        [valid EXCEPT !.email = <<"a", "@", "b">>, !.phone = <<>>] }

\* What the user types or pastes into the payment form.
PaymentInputs ==
  LET valid == [cardholderName |-> <<"A", " ", "B">>,
                cardNumber |-> <<"1", "2", "3", "4", "5", "6", "7", "8",
                                 "9", "0", "1", "2", "3", "4", "5", "6">>,
                expiryDate |-> <<"0", "1", "2", "9">>,
                cvv |-> <<"1", "2", "3">>]
  IN  { valid,
        [valid EXCEPT !.expiryDate = <<"1", "3", "2", "5">>],
        [valid EXCEPT !.cardNumber = <<"1", "2", "3", "4", "5", "6", "7", "8",
                                       "9", "0", "1", "2">>,
                      !.cvv = <<"1", "x">>] }

\* The onChange handlers of the shipping fields (Checkout.tsx:308-404).
typeShipping(a, input) == input @@ a

\* The onChange handlers of the payment fields (Checkout.tsx:426-464).
typePayment(d, input) ==
  [cardholderName |-> input.cardholderName,
   cardNumber |-> formatCardNumber(input.cardNumber),
   expiryDate |-> formatExpiryDate(input.expiryDate),
   cvv |-> KeepDigits(input.cvv)] @@ d

Steps == {"shipping", "payment", "review"}

\* The checkout page shows a step's card and the buttons under it.
Shown == route = "/checkout" /\ render(checkout, cart.items) \in Steps

\* A page load (address bar or reload): the script starts afresh, the store
\* is created again from localStorage and the page of the URL is mounted.
\* The delays of the page left are gone with it.
LoadPage(r) ==
  CommitPage(Page(rehydrate(storage), r,
                  IF r = "/checkout" THEN MountState ELSE Unmounted, <<>>),
             Op("loadPage", 0, 0))

\* The empty-cart effect of a Checkout instance rendered with an empty cart.
EmptyCartEffect ==
  /\ checkout.mounted
  /\ Len(cart.items) = 0
  /\ CommitPage(emptyCartEffect(PageHere), Op("emptyCartEffect", 0, 0))

\* A link or button that navigates inside the application.
GoTo(r) ==
  /\ <<route, r>> \in Links
  /\ route = "/checkout" => Shown
  /\ CommitPage(navigate(PageHere, r), Op("navigate", 0, 0))

\* Proceed to Checkout on the cart page.
HandleCheckout ==
  /\ route = "/cart"
  /\ CommitPage(handleCheckout(PageHere), Op("handleCheckout", 0, 0))

\* The shipping form editable on every step.
FillShipping_AnyStep(input) ==
  /\ Shown
  /\ CommitPage([PageHere EXCEPT !.co.shippingAddress = typeShipping(@, input)],
                Op("setShippingAddress", 0, 0))

\* The shipping form, rendered on the shipping step only (Checkout.tsx:296).
FillShipping(input) ==
  /\ Shown
  /\ checkout.currentStep = "shipping"
  /\ CommitPage([PageHere EXCEPT !.co.shippingAddress = typeShipping(@, input)],
                Op("setShippingAddress", 0, 0))

\* The payment form, rendered on the payment step only (Checkout.tsx:415).
FillPayment(input) ==
  /\ Shown
  /\ checkout.currentStep = "payment"
  /\ CommitPage([PageHere EXCEPT !.co.paymentData = typePayment(@, input)],
                Op("setPaymentData", 0, 0))

\* Continue (Checkout.tsx:574-576), shown on every step but review.
ClickContinue ==
  /\ Shown
  /\ checkout.currentStep # "review"
  /\ CommitPage([PageHere EXCEPT !.co = handleNextStep(@)], Op("handleNextStep", 0, 0))

\* Previous (Checkout.tsx:541-551), disabled on the shipping step only.
ClickPrevious ==
  /\ Shown
  /\ checkout.currentStep # "shipping"
  /\ CommitPage([PageHere EXCEPT !.co = handlePrevStep(@)], Op("handlePrevStep", 0, 0))

\* Place Order (Checkout.tsx:553-557), shown on review, disabled while
\* isProcessing.
ClickPlaceOrder ==
  /\ Shown
  /\ checkout.currentStep = "review"
  /\ ~checkout.isProcessing
  /\ Len(timers) < MaxInFlight
  /\ CommitPage(handlePlaceOrder(PageHere), Op("handlePlaceOrder", 0, 0))

\* The oldest payment delay elapses (all last 2000 ms) and handlePlaceOrder
\* goes on after its await; setTimeout's promise can only resolve.  The
\* store's set() in clearCart makes a mounted Checkout render again: whether
\* React does so before it handles the router's update depends on the
\* versions of React and the router (rerendered), and if it does the
\* empty-cart effect runs as well.
PaymentCompletes(rerendered) ==
  /\ timers # <<>>
  /\ LET done == paymentSettled([PageHere EXCEPT !.timers = Tail(@)], Head(timers), "resolved")
     IN  CommitPage(IF rerendered /\ checkout.mounted
                      THEN emptyCartEffect(done)
                      ELSE done,
                    Op("paymentSettled", 0, 0))

NextCheckout ==
  \/ \E r \in Routes : LoadPage(r)
  \/ EmptyCartEffect
  \/ \E r \in Routes : GoTo(r)
  \/ \E p \in CheckoutProducts : route = "/dashboard" /\ AddItem(p)
  \/ \E i \in 1..Len(cart.items) : route = "/cart" /\ RemoveItem(cart.items[i].id)
  \/ route = "/cart" /\ Len(cart.items) > 0 /\ ClearCart
  \/ HandleCheckout
  \/ \E input \in ShippingInputs : FillShipping(input)
  \/ \E input \in PaymentInputs : FillPayment(input)
  \/ ClickContinue
  \/ ClickPrevious
  \/ ClickPlaceOrder
  \/ \E rerendered \in BOOLEAN : PaymentCompletes(rerendered)

SpecCheckout == Init /\ [][NextCheckout]_vars

(***************************************************************************)
(* The handlers called on any component state, as a test of the component  *)
(* calls them: the forms are set whatever the step, and the step handlers  *)
(* are called on every step.                                               *)
(***************************************************************************)
SetShippingAddress(input) ==
  /\ checkout.mounted
  /\ CommitPage([PageHere EXCEPT !.co.shippingAddress = typeShipping(@, input)],
                Op("setShippingAddress", 0, 0))

SetPaymentData(input) ==
  /\ checkout.mounted
  /\ CommitPage([PageHere EXCEPT !.co.paymentData = typePayment(@, input)],
                Op("setPaymentData", 0, 0))

CallNextStep ==
  /\ checkout.mounted
  /\ CommitPage([PageHere EXCEPT !.co = handleNextStep(@)], Op("handleNextStep", 0, 0))

CallPrevStep ==
  /\ checkout.mounted
  /\ CommitPage([PageHere EXCEPT !.co = handlePrevStep(@)], Op("handlePrevStep", 0, 0))

NextHandlers ==
  \/ NextCheckout
  \/ \E input \in ShippingInputs : SetShippingAddress(input)
  \/ \E input \in PaymentInputs : SetPaymentData(input)
  \/ CallNextStep
  \/ CallPrevStep

SpecHandlers == Init /\ [][NextHandlers]_vars

\* A delay in flight elapses, and a pending effect runs.
SpecHandlersFair ==
  /\ SpecHandlers
  /\ WF_vars(\E rerendered \in BOOLEAN : PaymentCompletes(rerendered))
  /\ WF_vars(EmptyCartEffect)

----------------------------------------------------------------------------
(***************************************************************************)
(* The validations and the card number formatter on their own: a Checkout  *)
(* mounted with one of a set of forms, on which they are called.           *)
(***************************************************************************)

CardNumbers ==
  { <<>>, <<" ">>,
    <<"1", "2", "3", "4", "5", "6", "7", "8", "9", "0", "1", "2", "3", "4", "5", "6">>,
    <<"1", "2", "3", "4", " ", "5", "6", "7", "8", " ", "9", "0", "1", "2", " ",
      "3", "4", "5", "6">>,
    <<"1", "2", "3", "4", " ", "5", "6", "7", "8", " ", "9", "0", "1", "2">>,
    <<"1", "2", "3", "4", " ", "5", "6", "7", "8", " ", "9", "0", "1", "2", " ",
      "3", "4", "5", "x">>,
    <<"1", "2", "3", "4", "5", "6", "7", "8", "9", "0", "1", "2", "3", "4", "5", "6", "7">>,
    <<"1", "2">> }

ExpiryDates ==
  { <<>>,
    <<"0", "1", "/", "2", "9">>, <<"1", "2", "/", "0", "0">>,
    <<"1", "3", "/", "2", "5">>, <<"0", "0", "/", "2", "5">>,
    <<"1", "/", "2", "9">>, <<"0", "1", "-", "2", "9">>,
    <<"0", "1", "/", "2", "9", " ">> }

Cvvs ==
  { <<>>, <<"1", "2">>, <<"1", "2", "3">>, <<"1", "2", "3", "4">>,
    <<"1", "2", "3", "4", "5">>, <<"1", "2", "a">>, <<"1", "2", "3", " ">> }

Names == { <<>>, <<"\t", " ">>, <<"A", " ", "B">> }

Emails ==
  { <<>>, <<" ">>,
    <<"a", "@", "b", ".", "c">>, <<"a", ".", "b", "@", "c", ".", "d">>,
    <<"a", "@", ".", ".", "c">>,
    <<"a", "@", "b">>, <<"@", "b", ".", "c">>, <<"a", "@", ".", "c">>,
    <<"a", "@", "b", ".">>, <<"a", ".", "b", "@", "c">>,
    <<"a", "@", "@", "b", ".", "c">>, <<"a", " ", "@", "b", ".", "c">> }

PaymentForms ==
  [cardNumber : CardNumbers, expiryDate : ExpiryDates, cvv : Cvvs, cardholderName : Names]

ShippingForms ==
  [firstName : {<<>>, <<"A">>}, lastName : {<<" ">>, <<"B">>}, email : Emails,
   phone : {<<>>, <<"5">>}, address1 : {<<"\t">>, <<"1">>},
   address2 : {<<>>, <<"2">>}, city : {<<" ", " ">>, <<"X">>},
   state : {<<>>, <<"Y">>}, zipCode : {<<>>, <<" ", "9", " ">>},
   country : {"United States"}]

\* The keys typed into the card number field.
Keys == <<"1", "2", "x", " ">>

\* The checkout page just entered with product 1 in the cart.
InitValidate ==
  LET c == addItem(rehydrate(<<>>), Catalog[1])
  IN  /\ cart = c.state
      /\ storage = c.storage
      /\ toasts = <<>>
      /\ lastOp = Op("navigate", 0, 0)
      /\ prev = c.state
      /\ published = <<>>
      /\ route = "/checkout"
      /\ \/ \E a \in ShippingForms : checkout = [MountState EXCEPT !.shippingAddress = a]
         \/ \E d \in PaymentForms : checkout = [MountState EXCEPT !.paymentData = d]
      /\ timers = <<>>
      /\ prevCheckout = MountState
      /\ returned = <<>>

ValidateShipping ==
  LET v == validateShipping(checkout)
  IN  CommitPage([PageHere EXCEPT !.co = v.co, !.returned = <<v.ok>>],
                 Op("validateShipping", 0, 0))

ValidatePayment ==
  LET v == validatePayment(checkout)
  IN  CommitPage([PageHere EXCEPT !.co = v.co, !.returned = <<v.ok>>],
                 Op("validatePayment", 0, 0))

\* The k-th key is typed at the end of the card number field: its onChange
\* (Checkout.tsx:438) stores formatCardNumber of the field's new text.
TypeCardNumber(k) ==
  CommitPage([PageHere EXCEPT !.co.paymentData.cardNumber =
                                 formatCardNumber(@ \o <<Keys[k]>>)],
             Op("typeCardNumber", k, 0))

NextValidate ==
  \/ ValidateShipping
  \/ ValidatePayment
  \/ \E k \in 1..Len(Keys) : TypeCardNumber(k)

SpecValidate == InitValidate /\ [][NextValidate]_vars

----------------------------------------------------------------------------
(***************************************************************************)
(* The session store, cart/frontend/src/utils/auth.ts: a token and a user  *)
(* profile in localStorage.  A stored token is the sequence of its         *)
(* characters; a stored profile is the JSON text of a user, or a text that *)
(* is empty, is not JSON, or is the JSON null.                             *)
(***************************************************************************)

\* auth.ts:33-34
TOKEN_KEY == "viewcraft_token"
USER_KEY == "viewcraft_user"

Users == { [firstName |-> <<"A">>, lastName |-> <<"B">>, email |-> <<"a", "@", "b", ".", "c">>],
           [firstName |-> <<"C">>, lastName |-> <<"D">>, email |-> <<"c", "@", "d", ".", "e">>] }

\* JSON.stringify of a profile (auth.ts:66-74)
JSONstringify(user) == [kind |-> "json", value |-> user]

UserTexts ==
  {JSONstringify(u) : u \in Users} \cup {[kind |-> "empty"], [kind |-> "garbage"], [kind |-> "null"]}

\* accessToken values: three parts, one part, two parts, and the empty string.
Tokens ==
  { <<"a", ".", "b", ".", "c">>, <<"a", "b", "c">>, <<"a", ".", "b">>, <<>> }

\* localStorage.removeItem
RemoveKey(st, key) == [k \in DOMAIN st \ {key} |-> st[k]]

\* localStorage.getItem: <<>> for null, else <<value>>.
GetItem(st, key) == IF key \in DOMAIN st THEN <<st[key]>> ELSE <<>>

\* login after a successful response (auth.ts:62-76); a failed one throws
\* before anything is stored.
login(c, authData) ==
  [c EXCEPT !.storage = (TOKEN_KEY :> authData.accessToken)
                          @@ (USER_KEY :> JSONstringify(authData.user)) @@ @]

\* logout emptying the whole localStorage.
logout_ClearsStorage(c) == [c EXCEPT !.storage = <<>>]

\* logout (auth.ts:89-92)
logout(c) == [c EXCEPT !.storage = RemoveKey(RemoveKey(@, TOKEN_KEY), USER_KEY)]

\* getToken (auth.ts:98-100)
getToken(st) == GetItem(st, TOKEN_KEY)

\* getUser (auth.ts:106-116): null for a missing or empty text, for a text
\* JSON.parse throws on, and for the JSON null.
getUser(st) ==
  LET userData == GetItem(st, USER_KEY)
  IN  IF userData = <<>> THEN <<>>
      ELSE IF userData[1].kind = "json" THEN <<userData[1].value>>
      ELSE <<>>

\* A value of type string | null is truthy: not null and not ''.
Truthy(v) == v # <<>> /\ v[1] # <<>>

\* isAuthenticated (auth.ts:122-126)
isAuthenticated(st) == Truthy(getToken(st)) /\ getUser(st) # <<>>

\* isValidTokenFormat (auth.ts:133-139): token.split('.') has 3 parts.
isValidTokenFormat(token) ==
  /\ token # <<>>
  /\ Cardinality({i \in 1..Len(token) : token[i] = "."}) + 1 = 3

\* clearInvalidAuth (auth.ts:169-177)
clearInvalidAuth(c) ==
  LET token == getToken(c.storage)
      user == getUser(c.storage)
  IN  IF \/ Truthy(token) /\ ~isValidTokenFormat(token[1])
         \/ ~Truthy(token) /\ user # <<>>
         \/ Truthy(token) /\ user = <<>>
        THEN logout(c)
        ELSE c

\* handleLogout of a page (Dashboard.tsx:75-80, Cart.tsx:28-34,
\* Checkout.tsx:64-70)
handleLogout(pg) ==
  navigate(toast(logout(pg), "info", "Logged out successfully", ""), "/login")

\* ProtectedRoute (ProtectedRoute.tsx:13-23) around the page at `to`.
ProtectedRoute(pg, to) ==
  IF isAuthenticated(pg.storage) THEN navigate(pg, to) ELSE navigate(pg, "/login")

\* The browser's storage as a page load finds it: whatever an earlier
\* session, an earlier version or the user left under the two keys.
AuthStorages ==
  { t @@ u : t \in {<<>>} \cup {TOKEN_KEY :> tok : tok \in Tokens},
             u \in {<<>>} \cup {USER_KEY :> txt : txt \in UserTexts} }

InitAuth ==
  LET c == rehydrate(<<>>)
  IN  /\ cart = c.state
      /\ storage \in {a @@ c.storage : a \in AuthStorages}
      /\ toasts = <<>>
      /\ lastOp = Op("rehydrate", 0, 0)
      /\ prev = InitialState
      /\ published = c.published
      /\ route = "/login"
      /\ checkout = Unmounted
      /\ timers = <<>>
      /\ prevCheckout = Unmounted
      /\ returned = <<>>

\* The login form submitted and the server answering with user u and an
\* accessToken (App.tsx:181-205).
Login(u, tok) ==
  /\ route = "/login"
  /\ CommitPage(navigate(toast(login(PageHere, [user |-> u, accessToken |-> tok]),
                               "success", "Welcome back", ""),
                         "/dashboard"),
                Op("login", 0, 0))

HandleLogout ==
  /\ route \in {"/dashboard", "/cart", "/checkout"}
  /\ route = "/checkout" => Shown
  /\ CommitPage(handleLogout(PageHere), Op("logout", 0, 0))

IsAuthenticated ==
  CommitPage([PageHere EXCEPT !.returned = <<isAuthenticated(storage)>>],
             Op("isAuthenticated", 0, 0))

ClearInvalidAuth == CommitPage(clearInvalidAuth(PageHere), Op("clearInvalidAuth", 0, 0))

\* A protected page is opened.
OpenProtected(to) ==
  /\ route # to
  /\ CommitPage(ProtectedRoute(PageHere, to), Op("ProtectedRoute", 0, 0))

NextAuth ==
  \/ \E u \in Users, tok \in Tokens \ {<<>>} : Login(u, tok)
  \/ HandleLogout
  \/ IsAuthenticated
  \/ ClearInvalidAuth
  \/ \E to \in {"/dashboard", "/cart"} : OpenProtected(to)
  \/ \E p \in CheckoutProducts : route = "/dashboard" /\ AddItem(p)
  \/ \E i \in 1..Len(cart.items) : route = "/cart" /\ RemoveItem(cart.items[i].id)
  \/ Rehydrate

SpecAuth == InitAuth /\ [][NextAuth]_vars

----------------------------------------------------------------------------
(***************************************************************************)
(* One session of the application in a browser tab: the pages are left and *)
(* entered through the application's own links and buttons, logging out    *)
(* and in included, and the script is never loaded afresh, so a payment    *)
(* delay once started elapses.                                             *)
(***************************************************************************)
NextSession ==
  \/ \E r \in Routes : GoTo(r)
  \/ \E p \in CheckoutProducts : route = "/dashboard" /\ AddItem(p)
  \/ \E i \in 1..Len(cart.items) : route = "/cart" /\ RemoveItem(cart.items[i].id)
  \/ route = "/cart" /\ Len(cart.items) > 0 /\ ClearCart
  \/ HandleCheckout
  \/ \E input \in ShippingInputs : FillShipping(input)
  \/ \E input \in PaymentInputs : FillPayment(input)
  \/ ClickContinue
  \/ ClickPrevious
  \/ ClickPlaceOrder
  \/ \E rerendered \in BOOLEAN : PaymentCompletes(rerendered)
  \/ HandleLogout
  \/ Login(User, <<"a", ".", "b", ".", "c">>)

SpecSessionFair ==
  /\ Init
  /\ [][NextSession]_vars
  /\ WF_vars(\E rerendered \in BOOLEAN : PaymentCompletes(rerendered))

----------------------------------------------------------------------------
(***************************************************************************)
(* calculateTotals over carts of products the catalogue API can return:    *)
(* App.tsx:566-575 passes the fetched product's price and                  *)
(* discountPercentage to addItem unchanged.                                *)
(***************************************************************************)

\* Sample prices in cents and discount percentages (0 is falsy: no discount).
TotalsPrices == {1, 999, 1081, 2000, 5376}
TotalsDiscounts == {0, 7, 10, 100}

\* The one-line carts of the samples, as addItem and updateQuantity build them.
TotalsCarts ==
  { <<[id |-> 1, title |-> "Sample", price |-> p, discountPercentage |-> d,
       quantity |-> q]>> :
      p \in TotalsPrices, d \in TotalsDiscounts, q \in 1..MaxQty }

\* A page load in a browser whose localStorage holds one of the carts.
InitTotals ==
  \E items \in TotalsCarts :
    LET st == [k \in {CART_KEY} |-> partialize([InitialState EXCEPT !.items = items])]
        c  == rehydrate(st)
    IN  /\ cart = c.state
        /\ storage = c.storage
        /\ toasts = c.toasts
        /\ lastOp = Op("rehydrate", 0, 0)
        /\ prev = InitialState
        /\ published = c.published
        /\ route = "/dashboard"
        /\ checkout = Unmounted
        /\ timers = <<>>
        /\ prevCheckout = Unmounted
        /\ returned = <<>>

NextTotals ==
  \/ CalculateTotals
  \/ Rehydrate
  \/ \E q \in 1..MaxQty : UpdateQuantity(1, q)

SpecTotals == InitTotals /\ [][NextTotals]_vars

----------------------------------------------------------------------------
\* What calculateTotals computes from a list of line items.
CalcTotals(items) ==
  TotalsOf(calculateTotals(Ctx([InitialState EXCEPT !.items = items], <<>>)).state)

ZeroTotals ==
  [totalItems |-> 0, subtotal |-> 0, tax |-> 0, shipping |-> 0, totalPrice |-> 0]

\* The handlers that end in calculateTotals.
CalcOps ==
  {"addItem", "removeItem", "updateQuantity", "handleQuantityChange", "rehydrate",
   "calculateTotals"}

\* C1: after any sequence of addItem, removeItem and updateQuantity calls no
\* two line items share a product id and every line item has quantity >= 1.
C1_UniqueIdsPositiveQuantity ==
  /\ \A i, j \in 1..Len(cart.items) : i # j => cart.items[i].id # cart.items[j].id
  /\ \A i \in 1..Len(cart.items) : cart.items[i].quantity >= 1

\* A two-line cart left by an updateQuantity call with quantity <= 0 that
\* removed a third line.
C1_Witness ==
  /\ lastOp.op = "updateQuantity"
  /\ lastOp.quantity <= 0
  /\ Len(prev.items) = 3
  /\ Len(cart.items) = 2

\* C2 (as claimed): after every completed cart operation the stored totals
\* equal what calculateTotals computes from the current line items.
C2_TotalsMatchItems == TotalsOf(cart) = CalcTotals(cart.items)

\* The cart of C3: one line, price 20.00, discount 10%, quantity 3.
C3_Cart ==
  /\ Len(cart.items) = 1
  /\ cart.items[1].price = 2000
  /\ cart.items[1].discountPercentage = 10
  /\ cart.items[1].quantity = 3

\* C3 (as claimed): for that cart calculateTotals yields subtotal 54.00,
\* tax 4.32, shipping 5.99 and totalPrice 64.31.
C3_Original ==
  C3_Cart => /\ cart.subtotal = 5400
             /\ cart.tax = 432
             /\ cart.shipping = 599
             /\ cart.totalPrice = 6431

\* C3 (amended): for that cart calculateTotals yields subtotal 54.00, tax 4.32,
\* shipping 0.00 (54.00 is at or above the threshold of 50) and totalPrice 58.32.
C3_Amended ==
  C3_Cart => /\ cart.subtotal = 5400
             /\ cart.tax = 432
             /\ cart.shipping = 0
             /\ cart.totalPrice = 5832

C3_Witness == C3_Cart /\ lastOp.op \in CalcOps

\* C4 (as claimed): in every state produced by calculateTotals, a stored
\* subtotal at or above 50 implies stored shipping 0 and a stored subtotal
\* below 50 implies stored shipping 5.99.
C4_ShippingDecidedOnStoredSubtotal ==
  lastOp.op \in CalcOps =>
    /\ cart.subtotal >= FREE_SHIPPING_THRESHOLD => cart.shipping = 0
    /\ cart.subtotal < FREE_SHIPPING_THRESHOLD => cart.shipping = SHIPPING_COST

\* C5: clearCart leaves items empty, sets the five totals to 0 and emits a
\* confirmation notification, from any prior cart state.
C5_ClearCart ==
  lastOp.op = "clearCart" =>
    /\ cart.items = <<>>
    /\ TotalsOf(cart) = ZeroTotals
    /\ toasts = <<[kind |-> "success", message |-> "Cart cleared", title |-> ""]>>

\* clearCart has run on a cart of three lines with non-zero totals.
C5_Witness ==
  /\ lastOp.op = "clearCart"
  /\ Len(prev.items) = 3
  /\ prev.totalPrice > 0

\* C6: addItem(product) adds 1 to the quantity of an existing line item with
\* product.id and creates no line item; otherwise it appends exactly one line
\* item with quantity 1; every other line item is unchanged and the totals are
\* recomputed.
C6_AddItem ==
  lastOp.op = "addItem" =>
    LET old == prev.items
        new == cart.items
        p   == lastOp.id
    IN  /\ IF HasItem(old, p)
             THEN /\ Len(new) = Len(old)
                  /\ \A i \in 1..Len(old) :
                       new[i] = IF old[i].id = p
                                  THEN [old[i] EXCEPT !.quantity = old[i].quantity + 1]
                                  ELSE old[i]
             ELSE /\ Len(new) = Len(old) + 1
                  /\ \A i \in 1..Len(old) : new[i] = old[i]
                  /\ new[Len(new)] = [id |-> p, title |-> Catalog[p].title,
                                       price |-> Catalog[p].price,
                                       discountPercentage |-> Catalog[p].discountPercentage,
                                       quantity |-> 1]
        /\ TotalsOf(cart) = CalcTotals(new)

\* addItem has incremented a line item of a cart holding other lines too.
C6_Witness ==
  /\ lastOp.op = "addItem"
  /\ HasItem(prev.items, lastOp.id)
  /\ Len(prev.items) >= 2
  /\ FindItem(cart.items, lastOp.id).quantity = FindItem(prev.items, lastOp.id).quantity + 1

\* C7 (as claimed): every addItem(product) call emits a confirmation
\* notification naming the product, on insert and on increment alike.
C7_AddItemAlwaysNotifies ==
  lastOp.op = "addItem" =>
    \E i \in 1..Len(toasts) :
      /\ toasts[i].kind = "success"
      /\ toasts[i].message = "added to cart"
      /\ toasts[i].title = Catalog[lastOp.id].title

\* C8: removeItem(id) deletes the line item with that id when present and
\* emits a removal notification; when absent, items is unchanged, the totals
\* are still recomputed, and nothing is emitted.
C8_RemoveItem ==
  lastOp.op = "removeItem" =>
    LET old == prev.items
        id  == lastOp.id
    IN  /\ IF HasItem(old, id)
             THEN /\ ~HasItem(cart.items, id)
                  /\ cart.items = SelectSeq(old, LAMBDA it : it.id # id)
                  /\ toasts = <<[kind |-> "success", message |-> "removed from cart",
                                 title |-> Catalog[id].title]>>
             ELSE /\ cart.items = old
                  /\ toasts = <<>>
        /\ TotalsOf(cart) = CalcTotals(cart.items)

\* removeItem of an absent id has run on a cart that clearCart left with
\* shipping 0, and the recomputation shows.
C8_Witness ==
  /\ lastOp.op = "removeItem"
  /\ ~HasItem(prev.items, lastOp.id)
  /\ prev.shipping = 0
  /\ prev.items = <<>>
  /\ cart.shipping = SHIPPING_COST
  /\ toasts = <<>>

\* C9: updateQuantity(id, q) with q <= 0 ends in the state removeItem(id)
\* ends in; with q > 0 the line item with that id gets quantity exactly q,
\* every other line item is unchanged and the totals are recomputed.
C9_UpdateQuantity ==
  lastOp.op = "updateQuantity" =>
    LET old == prev.items
        id  == lastOp.id
        q   == lastOp.quantity
        r   == removeItem(Ctx(prev, storage), id)
    IN  IF q <= 0
          THEN /\ cart = r.state
               /\ storage = r.storage
               /\ toasts = r.toasts
          ELSE /\ Len(cart.items) = Len(old)
               /\ \A i \in 1..Len(old) :
                    cart.items[i] = IF old[i].id = id
                                      THEN [old[i] EXCEPT !.quantity = q]
                                      ELSE old[i]
               /\ TotalsOf(cart) = CalcTotals(cart.items)

\* updateQuantity has raised one line of a several-line cart by more than 1.
C9_Witness ==
  /\ lastOp.op = "updateQuantity"
  /\ HasItem(prev.items, lastOp.id)
  /\ Len(prev.items) >= 2
  /\ FindItem(prev.items, lastOp.id).quantity = 1
  /\ lastOp.quantity = MaxQty
  /\ FindItem(cart.items, lastOp.id).quantity = MaxQty

\* C10: after any cart operation the snapshot under the cart key holds
\* exactly the current line items, and neither the totals nor isOpen.
C10_SnapshotIsItems ==
  /\ CART_KEY \in DOMAIN storage
  /\ DOMAIN storage[CART_KEY] = {"items"}
  /\ storage[CART_KEY].items = cart.items

\* A non-empty, open cart with non-zero totals, and its snapshot.
C10_Witness ==
  /\ Len(cart.items) >= 2
  /\ cart.isOpen
  /\ cart.totalPrice > 0
  /\ storage[CART_KEY].items = cart.items

\* C11: persisting the line items, restoring them at startup and recomputing
\* yields the totals calculateTotals gives on the original line items; after
\* rehydration the totals are the recomputed ones, not zeros or stale values.
C11_RehydrateRoundTrip ==
  lastOp.op = "rehydrate" =>
    /\ cart.items = prev.items
    /\ TotalsOf(cart) = CalcTotals(prev.items)

\* A reload of a cart of two lines or more, open, with non-zero totals.
C11_Witness ==
  /\ lastOp.op = "rehydrate"
  /\ Len(prev.items) >= 2
  /\ prev.isOpen
  /\ cart.totalPrice > SHIPPING_COST

\* C12: calculateTotals is idempotent: a second call right after a first
\* leaves items and the five totals as the first call left them.
C12_CalculateTotalsIdempotent ==
  lastOp.op = "calculateTotals" => calculateTotals(Here).state = cart

\* calculateTotals has run on a cart of two lines or more.
C12_Witness ==
  /\ lastOp.op = "calculateTotals"
  /\ Len(cart.items) >= 2
  /\ cart.totalItems >= 2

\* C20 (as claimed): no subscriber and no persistence write sees the store
\* with items changed and the totals not yet recomputed for them: every state
\* a handler publishes with changed items carries the totals it ends with.
C20_NoStaleTotalsPublished ==
  \A i \in 1..Len(published) :
    published[i].items # prev.items => TotalsOf(published[i]) = TotalsOf(cart)

----------------------------------------------------------------------------
\* Helpers of the checkout claims.

ShippingValid(co) == NoErrors(ShippingErrors(co.shippingAddress))

PaymentValid(co) == NoErrors(PaymentErrors(co.paymentData))

ErrorToasts == SelectSeq(toasts, LAMBDA t : t.kind = "error")

\* C13.  handleNextStep goes shipping -> payment exactly when the shipping
\* form validates and payment -> review exactly when the payment form
\* validates; when the validation fails the step stays and the error map is
\* not empty; on review it changes nothing.  No handler takes a mounted
\* component from shipping straight to review.
C13_StepAdvancesUnderValidation ==
  /\ lastOp.op = "handleNextStep" =>
       /\ prevCheckout.currentStep = "shipping" =>
            IF ShippingValid(prevCheckout)
              THEN checkout.currentStep = "payment"
              ELSE checkout.currentStep = "shipping" /\ ~NoErrors(checkout.errors)
       /\ prevCheckout.currentStep = "payment" =>
            IF PaymentValid(prevCheckout)
              THEN checkout.currentStep = "review"
              ELSE checkout.currentStep = "payment" /\ ~NoErrors(checkout.errors)
       /\ prevCheckout.currentStep = "review" => checkout = prevCheckout
  /\ (prevCheckout.mounted /\ checkout.mounted /\ prevCheckout.currentStep = "shipping")
       => checkout.currentStep # "review"

\* An invalid payment form keeps the component on payment, with errors.
C13_Witness ==
  /\ lastOp.op = "handleNextStep"
  /\ prevCheckout.currentStep = "payment"
  /\ ~PaymentValid(prevCheckout)
  /\ checkout.currentStep = "payment"
  /\ "expiryDate" \in DOMAIN checkout.errors

\* C14.  handlePrevStep goes payment -> shipping and review -> payment
\* whatever the forms hold and whether or not an order is being processed,
\* changes nothing on shipping, and leaves the forms, the error map, the
\* processing flag and the cart as they were.
C14_PrevStepUnvalidated ==
  lastOp.op = "handlePrevStep" =>
    /\ checkout =
         [prevCheckout EXCEPT !.currentStep =
            CASE @ = "payment" -> "shipping"
              [] @ = "review" -> "payment"
              [] OTHER -> @]
    /\ cart = prev
    /\ toasts = <<>>

\* Back from review with an order being processed and an invalid form.
C14_Witness ==
  /\ lastOp.op = "handlePrevStep"
  /\ prevCheckout.currentStep = "review"
  /\ checkout.currentStep = "payment"
  /\ checkout.isProcessing
  /\ ~PaymentValid(checkout)
  /\ Len(cart.items) > 0

\* C15.  handlePlaceOrder on an invalid shipping or payment form aborts: the
\* cart and the step are as before, isProcessing was not set and is false,
\* no payment delay of this instance is in flight, the page is still the
\* checkout page, and one error notification was emitted.
C15_InvalidPlaceOrderAborts ==
  (lastOp.op = "handlePlaceOrder" /\ ~(ShippingValid(prevCheckout) /\ PaymentValid(prevCheckout)))
    => /\ cart = prev
       /\ route = "/checkout"
       /\ checkout.mounted
       /\ checkout.currentStep = prevCheckout.currentStep
       /\ checkout.isProcessing = prevCheckout.isProcessing
       /\ ~checkout.isProcessing
       /\ \A i \in 1..Len(timers) : ~timers[i]
       /\ toasts = <<[kind |-> "error", message |-> "Please check your information",
                      title |-> ""]>>

\* Place Order with a valid shipping form and an invalid payment form.
C15_Witness ==
  /\ lastOp.op = "handlePlaceOrder"
  /\ ShippingValid(prevCheckout)
  /\ ~PaymentValid(prevCheckout)
  /\ Len(cart.items) > 0
  /\ Len(ErrorToasts) = 1

\* C16.  After handlePlaceOrder on an invalid shipping form and an invalid
\* payment form, the error map has the failing payment fields as well as the
\* failing shipping fields.
C16_BothValidationsReported ==
  (lastOp.op = "handlePlaceOrder" /\ ~ShippingValid(prevCheckout) /\ ~PaymentValid(prevCheckout))
    => /\ DOMAIN ShippingErrors(prevCheckout.shippingAddress) \subseteq DOMAIN checkout.errors
       /\ DOMAIN PaymentErrors(prevCheckout.paymentData) \subseteq DOMAIN checkout.errors

\* C17.  While a payment delay started by the mounted Checkout instance is
\* in flight, its isProcessing is true.  handlePlaceOrder on valid forms
\* starts the delay and leaves the cart and the page alone; when the delay
\* has elapsed the cart is empty and the page is /dashboard, with a success
\* notification.  The catch block, were the awaited promise to reject,
\* leaves the store, its persisted snapshot and the page as they are, emits
\* the failure notification and resets isProcessing.
C17_ProcessingUntilSettled ==
  /\ \A i \in 1..Len(timers) : timers[i] => checkout.mounted /\ checkout.isProcessing
  /\ (lastOp.op = "handlePlaceOrder" /\ ShippingValid(prevCheckout) /\ PaymentValid(prevCheckout))
       => /\ cart = prev
          /\ route = "/checkout"
          /\ checkout.isProcessing
          /\ timers # <<>> /\ timers[Len(timers)]
          /\ toasts = <<>>
  /\ lastOp.op = "paymentSettled"
       => /\ cart.items = <<>>
          /\ route = "/dashboard"
          /\ ~checkout.mounted
          /\ \E i \in 1..Len(toasts) :
               toasts[i].kind = "success" /\ toasts[i].message = "Order placed successfully!"
  /\ timers # <<>>
       => LET failed == paymentSettled(PageHere, Head(timers), "rejected")
          IN  /\ failed.state = cart
              /\ failed.storage = storage
              /\ failed.route = route
              /\ failed.toasts = <<[kind |-> "error", message |-> "Payment failed",
                                    title |-> ""]>>
              /\ Head(timers) => ~failed.co.isProcessing

\* The delay of the mounted instance elapses on a cart that holds items.
C17_Witness ==
  /\ lastOp.op = "paymentSettled"
  /\ prevCheckout.mounted
  /\ prevCheckout.isProcessing
  /\ Len(prev.items) > 0
  /\ cart.items = <<>>
  /\ route = "/dashboard"

\* C18.  After every handlePlaceOrder isProcessing is eventually false, and
\* isProcessing never stays true for ever.
C18_ProcessingEnds ==
  /\ (lastOp.op = "handlePlaceOrder") ~> ~checkout.isProcessing
  /\ checkout.isProcessing ~> ~checkout.isProcessing

\* The delay elapses after the user has gone back a step, and the flag is
\* down.
C18_Witness ==
  /\ lastOp.op = "paymentSettled"
  /\ prevCheckout.isProcessing
  /\ prevCheckout.currentStep = "payment"
  /\ ~checkout.isProcessing

\* C19.  A Checkout mounted on an empty cart renders nothing and offers none
\* of its buttons; its effect sends the user to /dashboard with one error
\* notification; and the cart page's handleCheckout on an empty cart stays
\* on /cart with an error notification and mounts no Checkout.
C19_EmptyCartNeverShowsCheckout ==
  /\ (checkout.mounted /\ Len(cart.items) = 0)
       => render(checkout, cart.items) = "null" /\ ~Shown
  /\ lastOp.op = "emptyCartEffect"
       => /\ route = "/dashboard"
          /\ ~checkout.mounted
          /\ toasts = <<[kind |-> "error", message |-> "Cart is empty", title |-> ""]>>
  /\ (lastOp.op = "handleCheckout" /\ Len(prev.items) = 0)
       => /\ route = "/cart"
          /\ ~checkout.mounted
          /\ toasts = <<[kind |-> "error", message |-> "Cart is empty", title |-> ""]>>
  /\ (lastOp.op = "handleCheckout" /\ Len(prev.items) > 0)
       => route = "/checkout" /\ render(checkout, cart.items) = "shipping"

\* The page /checkout was loaded on an empty cart and its effect has run.
C19_Witness ==
  /\ lastOp.op = "emptyCartEffect"
  /\ prevCheckout.mounted
  /\ Len(prev.items) = 0
  /\ route = "/dashboard"
  /\ Len(ErrorToasts) = 1

----------------------------------------------------------------------------
\* Helpers of the validation claims, stated from the rules and not from the
\* regular expressions.

OnlyWhitespace(str) == \A i \in 1..Len(str) : str[i] \in {" ", "\t"}

DigitCount(str) == Cardinality({i \in 1..Len(str) : str[i] \in Digits})

Months ==
  { <<"0", "1">>, <<"0", "2">>, <<"0", "3">>, <<"0", "4">>, <<"0", "5">>, <<"0", "6">>,
    <<"0", "7">>, <<"0", "8">>, <<"0", "9">>, <<"1", "0">>, <<"1", "1">>, <<"1", "2">> }

\* The rules of a payment form that is accepted.
PaymentAccepted(d) ==
  /\ ~OnlyWhitespace(d.cardNumber)
  /\ ~OnlyWhitespace(d.expiryDate)
  /\ ~OnlyWhitespace(d.cvv)
  /\ ~OnlyWhitespace(d.cardholderName)
  /\ \A i \in 1..Len(d.cardNumber) : d.cardNumber[i] \in Digits \cup {" ", "\t"}
  /\ DigitCount(d.cardNumber) = 16
  /\ Len(d.expiryDate) = 5
  /\ SubSeq(d.expiryDate, 1, 2) \in Months
  /\ d.expiryDate[3] = "/"
  /\ DigitCount(SubSeq(d.expiryDate, 4, 5)) = 2
  /\ Len(d.cvv) \in {3, 4}
  /\ DigitCount(d.cvv) = Len(d.cvv)

\* C21.  validatePayment returns true exactly for the payment forms the
\* rules accept, and exactly when the error map it sets is empty; it
\* refuses card number "1234 5678 9012" and expiry "13/25", and accepts
\* "1234567890123456" and "1234 5678 9012 3456" with expiry "01/29".
C21_ValidatePayment ==
  lastOp.op = "validatePayment" =>
    LET d == prevCheckout.paymentData
        rest == d.cvv = <<"1", "2", "3">> /\ d.cardholderName = <<"A", " ", "B">>
    IN  /\ returned = <<PaymentAccepted(d)>>
        /\ returned = <<NoErrors(checkout.errors)>>
        /\ d.cardNumber = <<"1", "2", "3", "4", " ", "5", "6", "7", "8", " ",
                            "9", "0", "1", "2">> => returned = <<FALSE>>
        /\ d.expiryDate = <<"1", "3", "/", "2", "5">> => returned = <<FALSE>>
        /\ (rest /\ d.expiryDate = <<"0", "1", "/", "2", "9">>
                 /\ d.cardNumber \in
                      { <<"1", "2", "3", "4", "5", "6", "7", "8",
                          "9", "0", "1", "2", "3", "4", "5", "6">>,
                        <<"1", "2", "3", "4", " ", "5", "6", "7", "8", " ",
                          "9", "0", "1", "2", " ", "3", "4", "5", "6">> })
             => returned = <<TRUE>>

\* The spaced 16-digit card number with expiry 01/29 is accepted.
C21_Witness ==
  /\ lastOp.op = "validatePayment"
  /\ returned = <<TRUE>>
  /\ Len(prevCheckout.paymentData.cardNumber) = 19
  /\ prevCheckout.paymentData.expiryDate = <<"0", "1", "/", "2", "9">>
  /\ checkout.errors = <<>>

ShippingRequired ==
  {"firstName", "lastName", "email", "phone", "address1", "city", "state", "zipCode"}

\* local@domain.tld: one @, no whitespace, something before the @, and a dot
\* after it with something on both of its sides.
EmailAccepted(str) ==
  /\ Cardinality({i \in 1..Len(str) : str[i] = "@"}) = 1
  /\ \A i \in 1..Len(str) : str[i] \notin {" ", "\t"}
  /\ str[1] # "@"
  /\ \E j \in 3..(Len(str) - 1) : str[j] = "." /\ str[j - 1] # "@" /\ "@" \in {str[k] : k \in 1..j}

\* The fields of a shipping form that fail.
ShippingFailing(a) ==
  {f \in ShippingRequired : OnlyWhitespace(a[f])}
    \cup (IF EmailAccepted(a.email) THEN {} ELSE {"email"})

\* C22.  validateShipping sets an error map that has an entry for exactly
\* the failing fields (a required field blank or whitespace only, or an
\* email not of the shape local@domain.tld), returns true exactly when no
\* field fails and exactly when the map is empty, and address line 2 does
\* not change its result.
C22_ValidateShipping ==
  lastOp.op = "validateShipping" =>
    LET a == prevCheckout.shippingAddress
    IN  /\ DOMAIN checkout.errors = ShippingFailing(a)
        /\ returned = <<ShippingFailing(a) = {}>>
        /\ returned = <<NoErrors(checkout.errors)>>
        /\ \A line2 \in {<<>>, <<" ">>, <<"2">>} :
             LET other == validateShipping([prevCheckout EXCEPT !.shippingAddress.address2 = line2])
             IN  other.ok = returned[1] /\ other.co.errors = checkout.errors

\* A form whose only failing fields are a whitespace-only city and the email.
C22_Witness ==
  /\ lastOp.op = "validateShipping"
  /\ returned = <<FALSE>>
  /\ DOMAIN checkout.errors = {"city", "email"}
  /\ prevCheckout.shippingAddress.city = <<" ", " ">>
  /\ prevCheckout.shippingAddress.address2 = <<>>

\* C23.  After a key is typed at the end of the card number field, the field
\* holds the digits of its previous text and of the key, in order, in chunks
\* of four joined by single spaces.
C23_TypingAccumulatesDigits ==
  lastOp.op = "typeCardNumber" =>
    checkout.paymentData.cardNumber =
      Group4(KeepDigits(prevCheckout.paymentData.cardNumber \o <<Keys[lastOp.id]>>))

----------------------------------------------------------------------------
\* Helpers of the session claims.

\* Three parts separated by dots.
WellFormedToken(token) == Cardinality({i \in 1..Len(token) : token[i] = "."}) = 2

HasToken(st) == TOKEN_KEY \in DOMAIN st

HasProfile(st) == USER_KEY \in DOMAIN st /\ st[USER_KEY].kind = "json"

\* A token without a user, a user without a token, or a malformed token.
Mismatched(st) ==
  \/ HasToken(st) /\ ~HasProfile(st)
  \/ USER_KEY \in DOMAIN st /\ ~HasToken(st)
  \/ HasToken(st) /\ ~WellFormedToken(st[TOKEN_KEY])

\* C24.  isAuthenticated returns true only with a stored token of three
\* dot-separated parts and a stored profile that parses, and after it no
\* mismatched session is left in the storage.
C24_AuthenticatedMeansWellFormed ==
  lastOp.op = "isAuthenticated" =>
    /\ returned = <<TRUE>> =>
         /\ HasToken(storage)
         /\ WellFormedToken(storage[TOKEN_KEY])
         /\ HasProfile(storage)
    /\ ~Mismatched(storage)

\* C30.  A logout or a login leaves the store's state and the persisted cart
\* as they were, so a reload after it restores the same line items with the
\* same quantities, whoever logs in.
C30_SessionLeavesCart ==
  lastOp.op \in {"logout", "login"} =>
    /\ cart = prev
    /\ CART_KEY \in DOMAIN storage
    /\ storage[CART_KEY] = partialize(prev)
    /\ rehydrate(storage).state.items = prev.items

\* The second user logs in on a browser whose cart holds two units.
C30_Witness ==
  /\ lastOp.op = "login"
  /\ cart.totalItems >= 2
  /\ storage[USER_KEY].value.firstName = <<"C">>
  /\ storage[CART_KEY].items = cart.items

----------------------------------------------------------------------------
\* C25.  Through the page's own controls, a Checkout on the payment step
\* holds a valid shipping form and one on the review step holds a valid
\* shipping form and a valid payment form, so every handlePlaceOrder passes
\* its validation: it emits no error and starts the payment.
C25_StepsImplyValidForms ==
  /\ (checkout.mounted /\ checkout.currentStep = "payment") => ShippingValid(checkout)
  /\ (checkout.mounted /\ checkout.currentStep = "review")
       => ShippingValid(checkout) /\ PaymentValid(checkout)
  /\ lastOp.op = "handlePlaceOrder"
       => /\ ErrorToasts = <<>>
          /\ checkout.isProcessing
          /\ checkout.errors = <<>>

\* Place Order pressed on the review step, reached through both forms.
C25_Witness ==
  /\ lastOp.op = "handlePlaceOrder"
  /\ prevCheckout.currentStep = "review"
  /\ ShippingValid(prevCheckout)
  /\ PaymentValid(prevCheckout)
  /\ checkout.isProcessing
  /\ timers # <<>>

\* C26.  A payment delay in flight elapses whatever the user does meanwhile
\* (a step back, another page, a logout, items added or removed): a delay
\* leaves the set of delays in flight only by elapsing, and when it elapses
\* the cart holds no line item, whatever it held just before.
C26_OrderCompletesWhateverTheUserDoes ==
  /\ (timers # <<>>) ~> (lastOp.op = "paymentSettled" /\ cart.items = <<>>)
  /\ [][Len(timers') < Len(timers) => lastOp'.op = "paymentSettled"]_vars
  /\ [](lastOp.op = "paymentSettled" => cart.items = <<>> /\ storage[CART_KEY].items = <<>>)

\* The delay elapses after the user has left the checkout page and put more
\* into the cart on the catalogue page.
C26_Witness ==
  /\ lastOp.op = "paymentSettled"
  /\ ~prevCheckout.mounted
  /\ prev.totalItems >= 2
  /\ cart.items = <<>>
  /\ route = "/dashboard"

\* C27.  At most one payment delay is in flight.
C27_AtMostOneInFlight == Len(timers) <= 1

----------------------------------------------------------------------------
\* C28.  A cart without line items has totalItems, subtotal, tax, shipping
\* and totalPrice all 0.
C28_EmptyCartHasZeroTotals ==
  cart.items = <<>> =>
    TotalsOf(cart) = [totalItems |-> 0, subtotal |-> 0, tax |-> 0, shipping |-> 0,
                      totalPrice |-> 0]

\* C29.  After calculateTotals the stored totalPrice is the sum of the stored
\* subtotal, tax and shipping, and the stored tax is 8% of the stored subtotal
\* rounded to 2 decimals (amounts in cents; 8% of cents is in 1/100 cent).
C29_StoredTotalsAddUp ==
  lastOp.op \in CalcOps =>
    /\ cart.totalPrice = cart.subtotal + cart.tax + cart.shipping
    /\ cart.tax = ToFixed2(cart.subtotal * TAX_RATE, 100)
====
